---- MODULE Spec2Model ----
(***************************************************************************)
(* Model of otx/mpa/deploy/utils/onnx.py: remove_nodes_by_op_type and      *)
(* prepare_onnx_for_openvino, acting on an in-memory ONNX graph.           *)
(*                                                                         *)
(* A NodeProto is a record [op_type, input, output]; input and output are  *)
(* sequences of tensor names.  Python holds nodes by reference, so the     *)
(* nodes live in `heap` (index = object identity) and graph.node and       *)
(* target_nodes are sequences of references into it.                       *)
(*                                                                         *)
(* Also models otx/algo/segmentation/litehrnet.py: LiteHRNet.__init__ and  *)
(* LiteHRNet._obtain_ignored_scope, under the specification SpecScope.     *)
(***************************************************************************)
EXTENDS Integers, Sequences, FiniteSets, TLC

VARIABLES
    heap,           \* node objects: reference -> [op_type, input, output]
    graph_node,     \* onnx_model.graph.node: sequence of references
    graph_input,    \* names of onnx_model.graph.input
    graph_output,   \* names of onnx_model.graph.output
    pc,             \* position of the running call
    caller,         \* "none" | "direct" | "prepare" | "repeat" (second call)
    op_type,        \* argument of remove_nodes_by_op_type
    target_nodes,   \* local list of references (lines 14-17)
    output_names,   \* local list of names (line 19)
    k,              \* position of the removal loop in target_nodes
    exc,            \* exception that ended the call, "none" otherwise
    file,           \* out_path: <<>> while unwritten, else <<the saved model>>
    pre,            \* the model as it was when remove_nodes_by_op_type was entered
    spliced,        \* history: the ports read for each node the loop handled
    variant,        \* LiteHRNet.__init__ argument: [kind, val], a str or an int
    model_name,     \* LiteHRNet.model_name (line 41), "" while unset
    ignored_scope,  \* <<>> until _obtain_ignored_scope returned, else <<the dict>>
    lite_pc         \* "absent" | "new" | "built" | "raised" | "obtained"

vars == <<heap, graph_node, graph_input, graph_output, pc, caller, op_type,
          target_nodes, output_names, k, exc, file, pre, spliced,
          variant, model_name, ignored_scope, lite_pc>>

lite_vars == <<variant, model_name, ignored_scope, lite_pc>>

onnx_vars == <<heap, graph_node, graph_input, graph_output, pc, caller,
               op_type, target_nodes, output_names, k, exc, file, pre,
               spliced>>

\* ------------------------------------------------------------------ bounds
MaxNodes == 3
MaxChain == 3
MaxGraphOutputs == 1

\* ------------------------------------------------------------ sequences
Range(s) == {s[i] : i \in DOMAIN s}

RemoveAt(s, i) == [j \in 1..(Len(s) - 1) |-> IF j < i THEN s[j] ELSE s[j + 1]]

\* ---------------------------------------------------------- input graphs
OpTypes == {"Mark", "Conv", "Relu"}

\* line 11
supported_op_types == <<"Mark", "Conv">>

DeclaredInputs == <<"i">>
Initializers == {"w"}

\* the n-th node of an input graph produces t<n> (and u<n> when it has a
\* second output), so the input graphs are in SSA form
TensorName(n) == "t" \o ToString(n)
SecondName(n) == "u" \o ToString(n)

Produced(nodes) == UNION {Range(nodes[i].output) : i \in DOMAIN nodes}

Node(o, ins, outs) == [op_type |-> o, input |-> ins, output |-> outs]

ListsUpTo2(names) ==
    {<<>>} \cup {<<a>> : a \in names} \cup {<<a, b>> : a \in names, b \in names}

\* Family 1, topology: every node has one input, the graph input or the output
\* of an earlier node, and one output; any op_type anywhere.
UnaryNodes(nodes) ==
    {Node(o, <<a>>, <<TensorName(Len(nodes) + 1)>>) :
        o \in OpTypes, a \in Range(DeclaredInputs) \cup Produced(nodes)}

RECURSIVE TopologyNodeLists(_)
TopologyNodeLists(n) ==
    IF n = 0 THEN {<<>>}
    ELSE UNION {{Append(g, nd) : nd \in UnaryNodes(g)} :
                    g \in TopologyNodeLists(n - 1)}

\* Family 2, ports: an optional Relu producer, a Mark or Conv node with up to
\* two inputs (none, graph input, initializer, producer) and one or two
\* outputs, an optional Relu consumer with up to two inputs.
PortNodeLists ==
    LET heads == {<<>>, <<Node("Relu", <<"i">>, <<TensorName(1)>>)>>}
        WithTarget(g) == {Append(g, Node(o, ins, outs)) :
                      o \in {"Mark", "Conv"},
                      ins \in ListsUpTo2(Range(DeclaredInputs) \cup Initializers
                                         \cup Produced(g)),
                      outs \in {<<TensorName(Len(g) + 1)>>,
                                <<TensorName(Len(g) + 1), SecondName(Len(g) + 1)>>}}
        WithConsumer(g) == {g} \cup
                   {Append(g, Node("Relu", ins, <<TensorName(Len(g) + 1)>>)) :
                      ins \in ListsUpTo2(Range(DeclaredInputs) \cup Initializers
                                         \cup Produced(g))}
    IN  UNION {WithConsumer(g) : g \in UNION {WithTarget(h) : h \in heads}}

\* Family 3, chains: a Relu producer, c >= 2 nodes of one supported op_type
\* in a row, a Relu consumer, and optionally one more node reading any tensor.
RECURSIVE ChainOf(_, _)
ChainOf(o, c) ==
    IF c = 0 THEN <<Node("Relu", <<"i">>, <<TensorName(1)>>)>>
    ELSE LET g == ChainOf(o, c - 1)
         IN  Append(g, Node(o, <<TensorName(Len(g))>>, <<TensorName(Len(g) + 1)>>))

ChainNodeLists ==
    LET Closed(o, c) ==
            LET g == ChainOf(o, c)
            IN  Append(g, Node("Relu", <<TensorName(Len(g))>>,
                                <<TensorName(Len(g) + 1)>>))
    IN  UNION {{Closed(o, c)} \cup
               {Append(Closed(o, c), nd) : nd \in UnaryNodes(Closed(o, c))} :
                    o \in Range(supported_op_types), c \in 2..MaxChain}

InitialNodeLists ==
    UNION {TopologyNodeLists(n) : n \in 0..MaxNodes}
        \cup PortNodeLists \cup ChainNodeLists

RECURSIVE ProducedSeq(_)
ProducedSeq(nodes) ==
    IF nodes = <<>> THEN <<>>
    ELSE ProducedSeq(SubSeq(nodes, 1, Len(nodes) - 1)) \o nodes[Len(nodes)].output

\* the strictly increasing sequences over 1..top of length at most n
RECURSIVE Increasing(_, _)
Increasing(top, n) ==
    IF n = 0 THEN {<<>>}
    ELSE LET shorter == Increasing(top, n - 1)
         IN  shorter \cup
             {Append(q[1], q[2]) :
                q \in {x \in shorter \X (1..top) :
                         x[1] = <<>> \/ x[1][Len(x[1])] < x[2]}}

\* Declared outputs: distinct produced names, at most MaxGraphOutputs of them
\* (their order plays no part in the code, so one order stands for all).
GraphOutputLists(nodes) ==
    LET ps == ProducedSeq(nodes)
    IN  {[j \in DOMAIN ix |-> ps[ix[j]]] : ix \in Increasing(Len(ps), MaxGraphOutputs)}

\* ------------------------------------------------------------ the graph
HasOpType(h, gn, t) == \E r \in Range(gn) : h[r].op_type = t

\* onnx.checker.check_model (lines 40, 47) as far as it concerns the wiring:
\* nodes are topologically sorted (every non-empty input is a graph input, an
\* initializer or an output of an earlier node) and the graph is in SSA form
\* (no name is produced twice, nor shadows a graph input or initializer).
CheckModel(h, gn, gin) ==
    LET base == Range(gin) \cup Initializers
        Before(p) == base \cup UNION {Range(h[gn[q]].output) : q \in 1..(p - 1)}
    IN  /\ \A p \in DOMAIN gn :
            /\ \A a \in Range(h[gn[p]].input) : a \in Before(p)
            /\ \A a \in Range(h[gn[p]].output) : a \notin Before(p)
            /\ \A x, y \in DOMAIN h[gn[p]].output :
                    x # y => h[gn[p]].output[x] # h[gn[p]].output[y]

\* faulty variant: the assertion of line 12 is missing
Supported_NoAssert(t) == TRUE

\* line 12
Supported(t) == t \in Range(supported_op_types)

\* faulty variant: the scan skips the node that follows a match (as a loop that
\* removed nodes from graph.node while iterating over it would)
CollectTargets_SkipAdjacent(h, gn, t) ==
    LET hit == {p \in DOMAIN gn :
                  h[gn[p]].op_type = t /\ (p = 1 \/ h[gn[p - 1]].op_type # t)}
        RECURSIVE Pick(_)
        Pick(p) == IF p > Len(gn) THEN <<>>
                   ELSE (IF p \in hit THEN <<gn[p]>> ELSE <<>>) \o Pick(p + 1)
    IN  Pick(1)

\* faulty variant: the scan collects the nodes of every supported op_type
CollectTargets_AnySupported(h, gn, t) ==
    SelectSeq(gn, LAMBDA r : h[r].op_type \in Range(supported_op_types))

\* faulty variant: the scan stops at the first match
CollectTargets_FirstOnly(h, gn, t) ==
    LET all == SelectSeq(gn, LAMBDA r : h[r].op_type = t)
    IN  IF all = <<>> THEN <<>> ELSE <<all[1]>>

\* lines 14-17
CollectTargets(h, gn, t) == SelectSeq(gn, LAMBDA r : h[r].op_type = t)

\* faulty variant: line 28 is missing, every input of a reader of out_port is replaced
Rewire_EverySlot(h, gn, in_port, out_port) ==
    [r \in DOMAIN h |->
        IF r \in Range(gn) /\ out_port \in Range(h[r].input)
        THEN [h[r] EXCEPT !.input = [i \in DOMAIN h[r].input |-> in_port]]
        ELSE h[r]]

\* faulty variant: only the first slot that holds out_port is replaced (as
\* list(node.input).index(out_port) would find it)
Rewire_FirstOccurrence(h, gn, in_port, out_port) ==
    [r \in DOMAIN h |->
        IF r \in Range(gn) /\ out_port \in Range(h[r].input)
        THEN [h[r] EXCEPT !.input =
                [i \in DOMAIN h[r].input |->
                    IF /\ h[r].input[i] = out_port
                       /\ \A q \in 1..(i - 1) : h[r].input[q] # out_port
                    THEN in_port ELSE h[r].input[i]]]
        ELSE h[r]]

\* lines 25-29: every node of the graph that reads out_port reads in_port instead
Rewire(h, gn, in_port, out_port) ==
    [r \in DOMAIN h |->
        IF r \in Range(gn) /\ out_port \in Range(h[r].input)
        THEN [h[r] EXCEPT !.input =
                [i \in DOMAIN h[r].input |->
                    IF h[r].input[i] = out_port THEN in_port ELSE h[r].input[i]]]
        ELSE h[r]]

\* faulty variant: the producers are renamed whether or not out_port is a graph output
RenameProducers_Unconditional(h, gn, in_port, out_port, outs) ==
    [r \in DOMAIN h |->
        IF r \in Range(gn) /\ in_port \in Range(h[r].output)
        THEN [h[r] EXCEPT !.output =
                [i \in DOMAIN h[r].output |->
                    IF h[r].output[i] = in_port THEN out_port ELSE h[r].output[i]]]
        ELSE h[r]]

\* lines 31-36: when out_port is a graph output, the producers of in_port
\* produce out_port instead
RenameProducers(h, gn, in_port, out_port, outs) ==
    IF out_port \in Range(outs)
    THEN [r \in DOMAIN h |->
            IF r \in Range(gn) /\ in_port \in Range(h[r].output)
            THEN [h[r] EXCEPT !.output =
                    [i \in DOMAIN h[r].output |->
                        IF h[r].output[i] = in_port THEN out_port ELSE h[r].output[i]]]
            ELSE h[r]]
    ELSE h

\* line 38: RepeatedCompositeContainer.remove deletes the first element that
\* compares equal (by value) to the argument; 0 when there is none (ValueError)
FirstEqual(h, gn, r) ==
    LET hits == {p \in DOMAIN gn : h[gn[p]] = h[r]}
    IN  IF hits = {} THEN 0 ELSE CHOOSE p \in hits : \A q \in hits : p <= q

\* faulty variant: the node is deleted at the position it had on entry
RemoveNode_StaleIndex(h, gn, r) == RemoveAt(gn, r)

RemoveNode(h, gn, r) == RemoveAt(gn, FirstEqual(h, gn, r))

Snapshot == [heap |-> heap, node |-> graph_node,
             input |-> graph_input, output |-> graph_output]

\* ----------------------------------------------------------------- Init
Init ==
    /\ heap \in InitialNodeLists
    /\ graph_node = [p \in DOMAIN heap |-> p]
    /\ graph_input = DeclaredInputs
    /\ graph_output \in GraphOutputLists(heap)
    /\ pc = "idle"
    /\ caller = "none"
    /\ op_type = "none"
    /\ target_nodes = <<>>
    /\ output_names = <<>>
    /\ k = 0
    /\ exc = "none"
    /\ file = <<>>
    /\ pre = Snapshot
    /\ spliced = <<>>
    /\ variant = <<>>
    /\ model_name = ""
    /\ ignored_scope = <<>>
    /\ lite_pc = "absent"

\* -------------------------------------------------------------- actions
\* lines 8-12 with an op_type that fails the assertion
AssertFail(t) ==
    /\ pc \in {"idle", "loaded"}
    /\ pc = "loaded" => t = "Mark"
    /\ ~Supported(t)
    /\ pc' = "raised"
    /\ exc' = "AssertionError"
    /\ op_type' = t
    /\ caller' = IF pc = "idle" THEN "direct" ELSE caller
    /\ pre' = Snapshot
    /\ UNCHANGED <<heap, graph_node, graph_input, graph_output, target_nodes,
                   output_names, k, file, spliced>>
    /\ UNCHANGED lite_vars

\* lines 8-19: the assertion passes, the targets and output names are collected
Enter(t) ==
    /\ pc \in {"idle", "loaded"}
    /\ pc = "loaded" => t = "Mark"
    /\ Supported(t)
    /\ op_type' = t
    /\ caller' = IF pc = "idle" THEN "direct" ELSE caller
    /\ target_nodes' = CollectTargets(heap, graph_node, t)
    /\ output_names' = graph_output
    /\ k' = 1
    /\ pc' = "loop"
    /\ pre' = Snapshot
    /\ spliced' = <<>>
    /\ UNCHANGED <<heap, graph_node, graph_input, graph_output, exc, file>>
    /\ UNCHANGED lite_vars

\* lines 8-19 again: the caller passes the returned model to
\* remove_nodes_by_op_type a second time, with the same op_type
EnterAgain ==
    /\ pc = "returned"
    /\ caller = "direct"
    /\ Supported(op_type)
    /\ caller' = "repeat"
    /\ target_nodes' = CollectTargets(heap, graph_node, op_type)
    /\ output_names' = graph_output
    /\ k' = 1
    /\ pc' = "loop"
    /\ pre' = Snapshot
    /\ spliced' = <<>>
    /\ UNCHANGED <<heap, graph_node, graph_input, graph_output, op_type, exc,
                   file>>
    /\ UNCHANGED lite_vars

\* lines 21-38: one iteration of the removal loop
Splice ==
    /\ pc = "loop"
    /\ k <= Len(target_nodes)
    /\ LET tn == target_nodes[k]
       IN  IF heap[tn].input = <<>> \/ heap[tn].output = <<>>
           THEN \* target_node.input[0] or target_node.output[0]: IndexError
                /\ pc' = "raised"
                /\ exc' = "IndexError"
                /\ UNCHANGED <<heap, graph_node, k, spliced>>
           ELSE LET in_port == heap[tn].input[1]
                    out_port == heap[tn].output[1]
                    h1 == Rewire(heap, graph_node, in_port, out_port)
                    h2 == RenameProducers(h1, graph_node, in_port, out_port,
                                          output_names)
                IN  IF FirstEqual(h2, graph_node, tn) = 0
                    THEN /\ heap' = h2
                         /\ pc' = "raised"
                         /\ exc' = "ValueError"
                         /\ UNCHANGED <<graph_node, k, spliced>>
                    ELSE /\ heap' = h2
                         /\ graph_node' = RemoveNode(h2, graph_node, tn)
                         /\ k' = k + 1
                         /\ spliced' = Append(spliced,
                                [node |-> tn, in_port |-> in_port,
                                 out_port |-> out_port])
                         /\ UNCHANGED <<pc, exc>>
    /\ UNCHANGED <<graph_input, graph_output, caller, op_type, target_nodes,
                   output_names, file, pre>>
    /\ UNCHANGED lite_vars

\* faulty variant: a failed check restores the model the caller passed in
Validate_RollBack ==
    /\ pc = "loop"
    /\ k > Len(target_nodes)
    /\ IF CheckModel(heap, graph_node, graph_input)
       THEN /\ pc' = IF caller = "prepare" THEN "prep_check" ELSE "returned"
            /\ exc' = exc
            /\ UNCHANGED <<heap, graph_node>>
       ELSE /\ pc' = "raised"
            /\ exc' = "ValidationError"
            /\ heap' = pre.heap
            /\ graph_node' = pre.node
    /\ UNCHANGED <<graph_input, graph_output, caller, op_type,
                   target_nodes, output_names, k, file, pre, spliced>>
    /\ UNCHANGED lite_vars

\* lines 40-41: the validity check, then the return
Validate ==
    /\ pc = "loop"
    /\ k > Len(target_nodes)
    /\ IF CheckModel(heap, graph_node, graph_input)
       THEN /\ pc' = IF caller = "prepare" THEN "prep_check" ELSE "returned"
            /\ exc' = exc
       ELSE /\ pc' = "raised"
            /\ exc' = "ValidationError"
    /\ UNCHANGED <<heap, graph_node, graph_input, graph_output, caller, op_type,
                   target_nodes, output_names, k, file, pre, spliced>>
    /\ UNCHANGED lite_vars

\* line 45: onnx.load gives the model
Load ==
    /\ pc = "idle"
    /\ pc' = "loaded"
    /\ caller' = "prepare"
    /\ UNCHANGED <<heap, graph_node, graph_input, graph_output, op_type,
                   target_nodes, output_names, k, exc, file, pre, spliced>>
    /\ UNCHANGED lite_vars

\* line 45: onnx.load raises (no such file, not a model)
LoadFail ==
    /\ pc = "idle"
    /\ pc' = "raised"
    /\ exc' = "LoadError"
    /\ caller' = "prepare"
    /\ UNCHANGED <<heap, graph_node, graph_input, graph_output, op_type,
                   target_nodes, output_names, k, file, pre, spliced>>
    /\ UNCHANGED lite_vars

\* line 47
PrepareCheck ==
    /\ pc = "prep_check"
    /\ IF CheckModel(heap, graph_node, graph_input)
       THEN /\ pc' = "prep_save"
            /\ exc' = exc
       ELSE /\ pc' = "raised"
            /\ exc' = "ValidationError"
    /\ UNCHANGED <<heap, graph_node, graph_input, graph_output, caller, op_type,
                   target_nodes, output_names, k, file, pre, spliced>>
    /\ UNCHANGED lite_vars

\* faulty variant: the model is saved as loaded, before the removal and the checks
Save_AsLoaded ==
    /\ pc = "loaded"
    /\ file' = <<Snapshot>>
    /\ pc' = "saved"
    /\ UNCHANGED <<heap, graph_node, graph_input, graph_output, caller, op_type,
                   target_nodes, output_names, k, exc, pre, spliced>>
    /\ UNCHANGED lite_vars

\* line 48
Save ==
    /\ pc = "prep_save"
    /\ file' = <<Snapshot>>
    /\ pc' = "saved"
    /\ UNCHANGED <<heap, graph_node, graph_input, graph_output, caller, op_type,
                   target_nodes, output_names, k, exc, pre, spliced>>
    /\ UNCHANGED lite_vars

Next ==
    \/ \E t \in OpTypes : AssertFail(t)
    \/ \E t \in OpTypes : Enter(t)
    \/ EnterAgain
    \/ Splice
    \/ Validate
    \/ Load
    \/ LoadFail
    \/ PrepareCheck
    \/ Save

Spec == Init /\ [][Next]_vars

\* ------------------------------------------- LiteHRNet (litehrnet.py)
MaxVariant == 20

StrVal(s) == [kind |-> "str", val |-> s]

IntVal(n) == [kind |-> "int", val |-> n]

\* values a caller can pass as `variant`: the annotation is not enforced
Variants ==
    {IntVal(n) : n \in 0..MaxVariant}
        \cup {StrVal(ToString(n)) : n \in 0..MaxVariant}
        \cup {StrVal(s) : s \in {"s", "x", "S", "X", "", "18 ", "018", "xl",
                              "litehrnet_18"}}

\* faulty variant: the f-string formats with repr, a str keeps its quotes
Format_Repr(v) ==
    IF v.kind = "int" THEN ToString(v.val) ELSE "'" \o v.val \o "'"

\* line 41, the replacement field {variant}: format(variant, ""), the decimal
\* digits of an int and the characters of a str
Format(v) ==
    IF v.kind = "int" THEN ToString(v.val) ELSE v.val

\* lines 93-172
ignored_scope_names_18 == <<
    "/model/backbone/stage0/stage0.0/layers/layers.0/cross_resolution_weighting/Mul",
    "/model/backbone/stage0/stage0.0/layers/layers.0/cross_resolution_weighting/Mul_1",
    "/model/backbone/stage0/stage0.0/layers/layers.1/cross_resolution_weighting/Mul",
    "/model/backbone/stage0/stage0.0/layers/layers.1/cross_resolution_weighting/Mul_1",
    "/model/backbone/stage0/stage0.0/Add_1",
    "/model/backbone/stage0/stage0.1/layers/layers.0/cross_resolution_weighting/Mul",
    "/model/backbone/stage0/stage0.1/layers/layers.0/cross_resolution_weighting/Mul_1",
    "/model/backbone/stage0/stage0.1/layers/layers.1/cross_resolution_weighting/Mul",
    "/model/backbone/stage0/stage0.1/layers/layers.1/cross_resolution_weighting/Mul_1",
    "/model/backbone/stage0/stage0.1/Add_1",
    "/model/backbone/stage1/stage1.0/layers/layers.0/cross_resolution_weighting/Mul",
    "/model/backbone/stage1/stage1.0/layers/layers.0/cross_resolution_weighting/Mul_1",
    "/model/backbone/stage1/stage1.0/layers/layers.0/cross_resolution_weighting/Mul_2",
    "/model/backbone/stage1/stage1.0/layers/layers.1/cross_resolution_weighting/Mul",
    "/model/backbone/stage1/stage1.0/layers/layers.1/cross_resolution_weighting/Mul_1",
    "/model/backbone/stage1/stage1.0/Add_1",
    "/model/backbone/stage1/stage1.0/layers/layers.1/cross_resolution_weighting/Mul_2",
    "/model/backbone/stage1/stage1.0/Add_2",
    "/model/backbone/stage1/stage1.0/Add_5",
    "/model/backbone/stage1/stage1.1/layers/layers.0/cross_resolution_weighting/Mul",
    "/model/backbone/stage1/stage1.1/layers/layers.0/cross_resolution_weighting/Mul_1",
    "/model/backbone/stage1/stage1.1/layers/layers.0/cross_resolution_weighting/Mul_2",
    "/model/backbone/stage1/stage1.1/layers/layers.1/cross_resolution_weighting/Mul",
    "/model/backbone/stage1/stage1.1/layers/layers.1/cross_resolution_weighting/Mul_1",
    "/model/backbone/stage1/stage1.1/Add_1",
    "/model/backbone/stage1/stage1.1/layers/layers.1/cross_resolution_weighting/Mul_2",
    "/model/backbone/stage1/stage1.1/Add_2",
    "/model/backbone/stage1/stage1.1/Add_5",
    "/model/backbone/stage1/stage1.2/layers/layers.0/cross_resolution_weighting/Mul",
    "/model/backbone/stage1/stage1.2/layers/layers.0/cross_resolution_weighting/Mul_1",
    "/model/backbone/stage1/stage1.2/layers/layers.0/cross_resolution_weighting/Mul_2",
    "/model/backbone/stage1/stage1.2/layers/layers.1/cross_resolution_weighting/Mul",
    "/model/backbone/stage1/stage1.2/layers/layers.1/cross_resolution_weighting/Mul_1",
    "/model/backbone/stage1/stage1.2/Add_1",
    "/model/backbone/stage1/stage1.2/layers/layers.1/cross_resolution_weighting/Mul_2",
    "/model/backbone/stage1/stage1.2/Add_2",
    "/model/backbone/stage1/stage1.2/Add_5",
    "/model/backbone/stage1/stage1.3/layers/layers.0/cross_resolution_weighting/Mul",
    "/model/backbone/stage1/stage1.3/layers/layers.0/cross_resolution_weighting/Mul_1",
    "/model/backbone/stage1/stage1.3/layers/layers.0/cross_resolution_weighting/Mul_2",
    "/model/backbone/stage1/stage1.3/layers/layers.1/cross_resolution_weighting/Mul",
    "/model/backbone/stage1/stage1.3/layers/layers.1/cross_resolution_weighting/Mul_1",
    "/model/backbone/stage1/stage1.3/Add_1",
    "/model/backbone/stage1/stage1.3/layers/layers.1/cross_resolution_weighting/Mul_2",
    "/model/backbone/stage1/stage1.3/Add_2",
    "/model/backbone/stage1/stage1.3/Add_5",
    "/model/backbone/stage2/stage2.0/layers/layers.0/cross_resolution_weighting/Mul",
    "/model/backbone/stage2/stage2.0/layers/layers.0/cross_resolution_weighting/Mul_1",
    "/model/backbone/stage2/stage2.0/layers/layers.0/cross_resolution_weighting/Mul_2",
    "/model/backbone/stage2/stage2.0/layers/layers.0/cross_resolution_weighting/Mul_3",
    "/model/backbone/stage2/stage2.0/layers/layers.1/cross_resolution_weighting/Mul",
    "/model/backbone/stage2/stage2.0/layers/layers.1/cross_resolution_weighting/Mul_1",
    "/model/backbone/stage2/stage2.0/Add_1",
    "/model/backbone/stage2/stage2.0/layers/layers.1/cross_resolution_weighting/Mul_2",
    "/model/backbone/stage2/stage2.0/Add_2",
    "/model/backbone/stage2/stage2.0/layers/layers.1/cross_resolution_weighting/Mul_3",
    "/model/backbone/stage2/stage2.0/Add_3",
    "/model/backbone/stage2/stage2.0/Add_6",
    "/model/backbone/stage2/stage2.0/Add_7",
    "/model/backbone/stage2/stage2.0/Add_11",
    "/model/backbone/stage2/stage2.1/layers/layers.0/cross_resolution_weighting/Mul",
    "/model/backbone/stage2/stage2.1/layers/layers.0/cross_resolution_weighting/Mul_1",
    "/model/backbone/stage2/stage2.1/layers/layers.0/cross_resolution_weighting/Mul_2",
    "/model/backbone/stage2/stage2.1/layers/layers.0/cross_resolution_weighting/Mul_3",
    "/model/backbone/stage2/stage2.1/layers/layers.1/cross_resolution_weighting/Mul",
    "/model/backbone/stage2/stage2.1/layers/layers.1/cross_resolution_weighting/Mul_1",
    "/model/backbone/stage2/stage2.1/Add_1",
    "/model/backbone/stage2/stage2.1/layers/layers.1/cross_resolution_weighting/Mul_2",
    "/model/backbone/stage2/stage2.1/Add_2",
    "/model/backbone/stage2/stage2.1/layers/layers.1/cross_resolution_weighting/Mul_3",
    "/model/backbone/stage2/stage2.1/Add_3",
    "/model/backbone/stage2/stage2.1/Add_6",
    "/model/backbone/stage2/stage2.1/Add_7",
    "/model/backbone/stage2/stage2.1/Add_11",
    "/model/aggregator/Add",
    "/model/aggregator/Add_1",
    "/model/aggregator/Add_2",
    "/model/backbone/stage2/stage2.1/Add"
    >>

\* lines 183-242
ignored_scope_names_s == <<
    "/model/backbone/stage0/stage0.0/layers/layers.0/cross_resolution_weighting/Mul",
    "/model/backbone/stage0/stage0.0/layers/layers.0/cross_resolution_weighting/Mul_1",
    "/model/backbone/stage0/stage0.0/layers/layers.1/cross_resolution_weighting/Mul",
    "/model/backbone/stage0/stage0.0/layers/layers.1/cross_resolution_weighting/Mul_1",
    "/model/backbone/stage0/stage0.0/Add_1",
    "/model/backbone/stage0/stage0.1/layers/layers.0/cross_resolution_weighting/Mul",
    "/model/backbone/stage0/stage0.1/layers/layers.0/cross_resolution_weighting/Mul_1",
    "/model/backbone/stage0/stage0.1/layers/layers.1/cross_resolution_weighting/Mul",
    "/model/backbone/stage0/stage0.1/layers/layers.1/cross_resolution_weighting/Mul_1",
    "/model/backbone/stage0/stage0.1/Add_1",
    "/model/backbone/stage0/stage0.2/layers/layers.0/cross_resolution_weighting/Mul",
    "/model/backbone/stage0/stage0.2/layers/layers.0/cross_resolution_weighting/Mul_1",
    "/model/backbone/stage0/stage0.2/layers/layers.1/cross_resolution_weighting/Mul",
    "/model/backbone/stage0/stage0.2/layers/layers.1/cross_resolution_weighting/Mul_1",
    "/model/backbone/stage0/stage0.2/Add_1",
    "/model/backbone/stage0/stage0.3/layers/layers.0/cross_resolution_weighting/Mul",
    "/model/backbone/stage0/stage0.3/layers/layers.0/cross_resolution_weighting/Mul_1",
    "/model/backbone/stage0/stage0.3/layers/layers.1/cross_resolution_weighting/Mul",
    "/model/backbone/stage0/stage0.3/layers/layers.1/cross_resolution_weighting/Mul_1",
    "/model/backbone/stage0/stage0.3/Add_1",
    "/model/backbone/stage1/stage1.0/layers/layers.0/cross_resolution_weighting/Mul",
    "/model/backbone/stage1/stage1.0/layers/layers.0/cross_resolution_weighting/Mul_1",
    "/model/backbone/stage1/stage1.0/layers/layers.0/cross_resolution_weighting/Mul_2",
    "/model/backbone/stage1/stage1.0/layers/layers.1/cross_resolution_weighting/Mul",
    "/model/backbone/stage1/stage1.0/layers/layers.1/cross_resolution_weighting/Mul_1",
    "/model/backbone/stage1/stage1.0/Add_1",
    "/model/backbone/stage1/stage1.0/layers/layers.1/cross_resolution_weighting/Mul_2",
    "/model/backbone/stage1/stage1.0/Add_2",
    "/model/backbone/stage1/stage1.0/Add_5",
    "/model/backbone/stage1/stage1.1/layers/layers.0/cross_resolution_weighting/Mul",
    "/model/backbone/stage1/stage1.1/layers/layers.0/cross_resolution_weighting/Mul_1",
    "/model/backbone/stage1/stage1.1/layers/layers.0/cross_resolution_weighting/Mul_2",
    "/model/backbone/stage1/stage1.1/layers/layers.1/cross_resolution_weighting/Mul",
    "/model/backbone/stage1/stage1.1/layers/layers.1/cross_resolution_weighting/Mul_1",
    "/model/backbone/stage1/stage1.1/Add_1",
    "/model/backbone/stage1/stage1.1/layers/layers.1/cross_resolution_weighting/Mul_2",
    "/model/backbone/stage1/stage1.1/Add_2",
    "/model/backbone/stage1/stage1.1/Add_5",
    "/model/backbone/stage1/stage1.2/layers/layers.0/cross_resolution_weighting/Mul",
    "/model/backbone/stage1/stage1.2/layers/layers.0/cross_resolution_weighting/Mul_1",
    "/model/backbone/stage1/stage1.2/layers/layers.0/cross_resolution_weighting/Mul_2",
    "/model/backbone/stage1/stage1.2/layers/layers.1/cross_resolution_weighting/Mul",
    "/model/backbone/stage1/stage1.2/layers/layers.1/cross_resolution_weighting/Mul_1",
    "/model/backbone/stage1/stage1.2/Add_1",
    "/model/backbone/stage1/stage1.2/layers/layers.1/cross_resolution_weighting/Mul_2",
    "/model/backbone/stage1/stage1.2/Add_2",
    "/model/backbone/stage1/stage1.2/Add_5",
    "/model/backbone/stage1/stage1.3/layers/layers.0/cross_resolution_weighting/Mul",
    "/model/backbone/stage1/stage1.3/layers/layers.0/cross_resolution_weighting/Mul_1",
    "/model/backbone/stage1/stage1.3/layers/layers.0/cross_resolution_weighting/Mul_2",
    "/model/backbone/stage1/stage1.3/layers/layers.1/cross_resolution_weighting/Mul",
    "/model/backbone/stage1/stage1.3/layers/layers.1/cross_resolution_weighting/Mul_1",
    "/model/backbone/stage1/stage1.3/Add_1",
    "/model/backbone/stage1/stage1.3/layers/layers.1/cross_resolution_weighting/Mul_2",
    "/model/backbone/stage1/stage1.3/Add_2",
    "/model/backbone/stage1/stage1.3/Add_5",
    "/model/aggregator/Add",
    "/model/aggregator/Add_1"
    >>

\* lines 252-407
ignored_scope_names_x == <<
    "/model/backbone/stage0/stage0.0/layers/layers.0/cross_resolution_weighting/Mul",
    "/model/backbone/stage0/stage0.0/layers/layers.0/cross_resolution_weighting/Mul_1",
    "/model/backbone/stage0/stage0.0/layers/layers.1/cross_resolution_weighting/Mul",
    "/model/backbone/stage0/stage0.0/layers/layers.1/cross_resolution_weighting/Mul_1",
    "/model/backbone/stage0/stage0.0/Add_1",
    "/model/backbone/stage0/stage0.1/layers/layers.0/cross_resolution_weighting/Mul",
    "/model/backbone/stage0/stage0.1/layers/layers.0/cross_resolution_weighting/Mul_1",
    "/model/backbone/stage0/stage0.1/layers/layers.1/cross_resolution_weighting/Mul",
    "/model/backbone/stage0/stage0.1/layers/layers.1/cross_resolution_weighting/Mul_1",
    "/model/backbone/stage0/stage0.1/Add_1",
    "/model/backbone/stage1/stage1.0/layers/layers.0/cross_resolution_weighting/Mul",
    "/model/backbone/stage1/stage1.0/layers/layers.0/cross_resolution_weighting/Mul_1",
    "/model/backbone/stage1/stage1.0/layers/layers.0/cross_resolution_weighting/Mul_2",
    "/model/backbone/stage1/stage1.0/layers/layers.1/cross_resolution_weighting/Mul",
    "/model/backbone/stage1/stage1.0/layers/layers.1/cross_resolution_weighting/Mul_1",
    "/model/backbone/stage1/stage1.0/Add_1",
    "/model/backbone/stage1/stage1.0/layers/layers.1/cross_resolution_weighting/Mul_2",
    "/model/backbone/stage1/stage1.0/Add_2",
    "/model/backbone/stage1/stage1.0/Add_5",
    "/model/backbone/stage1/stage1.1/layers/layers.0/cross_resolution_weighting/Mul",
    "/model/backbone/stage1/stage1.1/layers/layers.0/cross_resolution_weighting/Mul_1",
    "/model/backbone/stage1/stage1.1/layers/layers.0/cross_resolution_weighting/Mul_2",
    "/model/backbone/stage1/stage1.1/layers/layers.1/cross_resolution_weighting/Mul",
    "/model/backbone/stage1/stage1.1/layers/layers.1/cross_resolution_weighting/Mul_1",
    "/model/backbone/stage1/stage1.1/Add_1",
    "/model/backbone/stage1/stage1.1/layers/layers.1/cross_resolution_weighting/Mul_2",
    "/model/backbone/stage1/stage1.1/Add_2",
    "/model/backbone/stage1/stage1.1/Add_5",
    "/model/backbone/stage1/stage1.2/layers/layers.0/cross_resolution_weighting/Mul",
    "/model/backbone/stage1/stage1.2/layers/layers.0/cross_resolution_weighting/Mul_1",
    "/model/backbone/stage1/stage1.2/layers/layers.0/cross_resolution_weighting/Mul_2",
    "/model/backbone/stage1/stage1.2/layers/layers.1/cross_resolution_weighting/Mul",
    "/model/backbone/stage1/stage1.2/layers/layers.1/cross_resolution_weighting/Mul_1",
    "/model/backbone/stage1/stage1.2/Add_1",
    "/model/backbone/stage1/stage1.2/layers/layers.1/cross_resolution_weighting/Mul_2",
    "/model/backbone/stage1/stage1.2/Add_2",
    "/model/backbone/stage1/stage1.2/Add_5",
    "/model/backbone/stage1/stage1.3/layers/layers.0/cross_resolution_weighting/Mul",
    "/model/backbone/stage1/stage1.3/layers/layers.0/cross_resolution_weighting/Mul_1",
    "/model/backbone/stage1/stage1.3/layers/layers.0/cross_resolution_weighting/Mul_2",
    "/model/backbone/stage1/stage1.3/layers/layers.1/cross_resolution_weighting/Mul",
    "/model/backbone/stage1/stage1.3/layers/layers.1/cross_resolution_weighting/Mul_1",
    "/model/backbone/stage1/stage1.3/Add_1",
    "/model/backbone/stage1/stage1.3/layers/layers.1/cross_resolution_weighting/Mul_2",
    "/model/backbone/stage1/stage1.3/Add_2",
    "/model/backbone/stage1/stage1.3/Add_5",
    "/model/backbone/stage2/stage2.0/layers/layers.0/cross_resolution_weighting/Mul",
    "/model/backbone/stage2/stage2.0/layers/layers.0/cross_resolution_weighting/Mul_1",
    "/model/backbone/stage2/stage2.0/layers/layers.0/cross_resolution_weighting/Mul_2",
    "/model/backbone/stage2/stage2.0/layers/layers.0/cross_resolution_weighting/Mul_3",
    "/model/backbone/stage2/stage2.0/layers/layers.1/cross_resolution_weighting/Mul",
    "/model/backbone/stage2/stage2.0/layers/layers.1/cross_resolution_weighting/Mul_1",
    "/model/backbone/stage2/stage2.0/Add_1",
    "/model/backbone/stage2/stage2.0/layers/layers.1/cross_resolution_weighting/Mul_2",
    "/model/backbone/stage2/stage2.0/Add_2",
    "/model/backbone/stage2/stage2.0/layers/layers.1/cross_resolution_weighting/Mul_3",
    "/model/backbone/stage2/stage2.0/Add_3",
    "/model/backbone/stage2/stage2.0/Add_6",
    "/model/backbone/stage2/stage2.0/Add_7",
    "/model/backbone/stage2/stage2.0/Add_11",
    "/model/backbone/stage2/stage2.1/layers/layers.0/cross_resolution_weighting/Mul",
    "/model/backbone/stage2/stage2.1/layers/layers.0/cross_resolution_weighting/Mul_1",
    "/model/backbone/stage2/stage2.1/layers/layers.0/cross_resolution_weighting/Mul_2",
    "/model/backbone/stage2/stage2.1/layers/layers.0/cross_resolution_weighting/Mul_3",
    "/model/backbone/stage2/stage2.1/layers/layers.1/cross_resolution_weighting/Mul",
    "/model/backbone/stage2/stage2.1/layers/layers.1/cross_resolution_weighting/Mul_1",
    "/model/backbone/stage2/stage2.1/Add_1",
    "/model/backbone/stage2/stage2.1/layers/layers.1/cross_resolution_weighting/Mul_2",
    "/model/backbone/stage2/stage2.1/Add_2",
    "/model/backbone/stage2/stage2.1/layers/layers.1/cross_resolution_weighting/Mul_3",
    "/model/backbone/stage2/stage2.1/Add_3",
    "/model/backbone/stage2/stage2.1/Add_6",
    "/model/backbone/stage2/stage2.1/Add_7",
    "/model/backbone/stage2/stage2.1/Add_11",
    "/model/backbone/stage2/stage2.2/layers/layers.0/cross_resolution_weighting/Mul",
    "/model/backbone/stage2/stage2.2/layers/layers.0/cross_resolution_weighting/Mul_1",
    "/model/backbone/stage2/stage2.2/layers/layers.0/cross_resolution_weighting/Mul_2",
    "/model/backbone/stage2/stage2.2/layers/layers.0/cross_resolution_weighting/Mul_3",
    "/model/backbone/stage2/stage2.2/layers/layers.1/cross_resolution_weighting/Mul",
    "/model/backbone/stage2/stage2.2/layers/layers.1/cross_resolution_weighting/Mul_1",
    "/model/backbone/stage2/stage2.2/Add_1",
    "/model/backbone/stage2/stage2.2/layers/layers.1/cross_resolution_weighting/Mul_2",
    "/model/backbone/stage2/stage2.2/Add_2",
    "/model/backbone/stage2/stage2.2/layers/layers.1/cross_resolution_weighting/Mul_3",
    "/model/backbone/stage2/stage2.2/Add_3",
    "/model/backbone/stage2/stage2.2/Add_6",
    "/model/backbone/stage2/stage2.2/Add_7",
    "/model/backbone/stage2/stage2.2/Add_11",
    "/model/backbone/stage2/stage2.3/layers/layers.0/cross_resolution_weighting/Mul",
    "/model/backbone/stage2/stage2.3/layers/layers.0/cross_resolution_weighting/Mul_1",
    "/model/backbone/stage2/stage2.3/layers/layers.0/cross_resolution_weighting/Mul_2",
    "/model/backbone/stage2/stage2.3/layers/layers.0/cross_resolution_weighting/Mul_3",
    "/model/backbone/stage2/stage2.3/layers/layers.1/cross_resolution_weighting/Mul",
    "/model/backbone/stage2/stage2.3/layers/layers.1/cross_resolution_weighting/Mul_1",
    "/model/backbone/stage2/stage2.3/Add_1",
    "/model/backbone/stage2/stage2.3/layers/layers.1/cross_resolution_weighting/Mul_2",
    "/model/backbone/stage2/stage2.3/Add_2",
    "/model/backbone/stage2/stage2.3/layers/layers.1/cross_resolution_weighting/Mul_3",
    "/model/backbone/stage2/stage2.3/Add_3",
    "/model/backbone/stage2/stage2.3/Add_6",
    "/model/backbone/stage2/stage2.3/Add_7",
    "/model/backbone/stage2/stage2.3/Add_11",
    "/model/backbone/stage3/stage3.0/layers/layers.0/cross_resolution_weighting/Mul",
    "/model/backbone/stage3/stage3.0/layers/layers.0/cross_resolution_weighting/Mul_1",
    "/model/backbone/stage3/stage3.0/layers/layers.0/cross_resolution_weighting/Mul_2",
    "/model/backbone/stage3/stage3.0/layers/layers.0/cross_resolution_weighting/Mul_3",
    "/model/backbone/stage3/stage3.0/layers/layers.0/cross_resolution_weighting/Mul_4",
    "/model/backbone/stage3/stage3.0/layers/layers.1/cross_resolution_weighting/Mul",
    "/model/backbone/stage3/stage3.0/layers/layers.1/cross_resolution_weighting/Mul_1",
    "/model/backbone/stage3/stage3.0/Add_1",
    "/model/backbone/stage3/stage3.0/layers/layers.1/cross_resolution_weighting/Mul_2",
    "/model/backbone/stage3/stage3.0/Add_2",
    "/model/backbone/stage3/stage3.0/layers/layers.1/cross_resolution_weighting/Mul_3",
    "/model/backbone/stage3/stage3.0/Add_3",
    "/model/backbone/stage3/stage3.0/layers/layers.1/cross_resolution_weighting/Mul_4",
    "/model/backbone/stage3/stage3.0/Add_4",
    "/model/backbone/stage3/stage3.0/Add_7",
    "/model/backbone/stage3/stage3.0/Add_8",
    "/model/backbone/stage3/stage3.0/Add_9",
    "/model/backbone/stage3/stage3.0/Add_13",
    "/model/backbone/stage3/stage3.0/Add_14",
    "/model/backbone/stage3/stage3.0/Add_19",
    "/model/backbone/stage3/stage3.1/layers/layers.0/cross_resolution_weighting/Mul",
    "/model/backbone/stage3/stage3.1/layers/layers.0/cross_resolution_weighting/Mul_1",
    "/model/backbone/stage3/stage3.1/layers/layers.0/cross_resolution_weighting/Mul_2",
    "/model/backbone/stage3/stage3.1/layers/layers.0/cross_resolution_weighting/Mul_3",
    "/model/backbone/stage3/stage3.1/layers/layers.0/cross_resolution_weighting/Mul_4",
    "/model/backbone/stage3/stage3.1/layers/layers.1/cross_resolution_weighting/Mul",
    "/model/backbone/stage3/stage3.1/layers/layers.1/cross_resolution_weighting/Mul_1",
    "/model/backbone/stage3/stage3.1/Add_1",
    "/model/backbone/stage3/stage3.1/layers/layers.1/cross_resolution_weighting/Mul_2",
    "/model/backbone/stage3/stage3.1/Add_2",
    "/model/backbone/stage3/stage3.1/layers/layers.1/cross_resolution_weighting/Mul_3",
    "/model/backbone/stage3/stage3.1/Add_3",
    "/model/backbone/stage3/stage3.1/layers/layers.1/cross_resolution_weighting/Mul_4",
    "/model/backbone/stage3/stage3.1/Add_4",
    "/model/backbone/stage3/stage3.1/Add_7",
    "/model/backbone/stage3/stage3.1/Add_8",
    "/model/backbone/stage3/stage3.1/Add_9",
    "/model/backbone/stage3/stage3.1/Add_13",
    "/model/backbone/stage3/stage3.1/Add_14",
    "/model/backbone/stage3/stage3.1/Add_19",
    "/model/backbone/stage0/stage0.0/Add",
    "/model/backbone/stage0/stage0.1/Add",
    "/model/backbone/stage1/stage1.0/Add",
    "/model/backbone/stage1/stage1.1/Add",
    "/model/backbone/stage1/stage1.2/Add",
    "/model/backbone/stage1/stage1.3/Add",
    "/model/backbone/stage2/stage2.0/Add",
    "/model/backbone/stage2/stage2.1/Add",
    "/model/backbone/stage2/stage2.2/Add",
    "/model/backbone/stage2/stage2.3/Add",
    "/model/backbone/stage3/stage3.0/Add",
    "/model/backbone/stage3/stage3.1/Add"
    >>

\* the empty dict
EmptyDict == <<>>

\* lines 90-417
obtain_ignored_scope(name) ==
    IF name = "litehrnet_18"
    THEN [ignored_scope |-> [patterns |-> <<"/model/backbone/*">>,
                             names |-> ignored_scope_names_18],
          preset |-> "mixed"]
    ELSE IF name = "litehrnet_s"
    THEN [ignored_scope |-> [names |-> ignored_scope_names_s],
          preset |-> "mixed"]
    ELSE IF name = "litehrnet_x"
    THEN [ignored_scope |-> [patterns |-> <<"/model/aggregator/*">>,
                             names |-> ignored_scope_names_x],
          preset |-> "performance"]
    ELSE EmptyDict

InitScope ==
    /\ heap = <<>>
    /\ graph_node = <<>>
    /\ graph_input = DeclaredInputs
    /\ graph_output = <<>>
    /\ pc = "idle"
    /\ caller = "none"
    /\ op_type = "none"
    /\ target_nodes = <<>>
    /\ output_names = <<>>
    /\ k = 0
    /\ exc = "none"
    /\ file = <<>>
    /\ pre = Snapshot
    /\ spliced = <<>>
    /\ variant \in Variants
    /\ model_name = ""
    /\ ignored_scope = <<>>
    /\ lite_pc = "new"

\* lines 41-50: model_name is set, the config is read, the base class is set up
Construct ==
    /\ lite_pc = "new"
    /\ model_name' = "litehrnet_" \o Format(variant)
    /\ lite_pc' = "built"
    /\ UNCHANGED <<variant, ignored_scope>>
    /\ UNCHANGED onnx_vars

\* lines 41-50: model_name is set, then read_mmconfig or the base class raises
\* (neither is part of the modelled sources: either outcome is possible)
ConstructRaise ==
    /\ lite_pc = "new"
    /\ model_name' = "litehrnet_" \o Format(variant)
    /\ lite_pc' = "raised"
    /\ UNCHANGED <<variant, ignored_scope>>
    /\ UNCHANGED onnx_vars

\* line 78: _obtain_ignored_scope is called on the constructed model
ObtainIgnoredScope ==
    /\ lite_pc = "built"
    /\ ignored_scope' = <<obtain_ignored_scope(model_name)>>
    /\ lite_pc' = "obtained"
    /\ UNCHANGED <<variant, model_name>>
    /\ UNCHANGED onnx_vars

NextScope ==
    \/ Construct
    \/ ConstructRaise
    \/ ObtainIgnoredScope

SpecScope == InitScope /\ [][NextScope]_vars

\* ------------------------------------------------------ claim vocabulary
\* remove_nodes_by_op_type has left its loop (line 39 reached)
LoopDone ==
    \/ pc = "loop" /\ k > Len(target_nodes)
    \/ pc \in {"returned", "prep_check", "prep_save", "saved"}
    \/ pc = "raised" /\ exc = "ValidationError"

\* remove_nodes_by_op_type has returned its model (line 41)
ReturnedNormally == pc \in {"returned", "prep_check", "prep_save", "saved"}

ProducedBy(h, gn) == UNION {Range(h[r].output) : r \in Range(gn)}

WellWired(h, gn, gin) ==
    \A r \in Range(gn) : \A a \in Range(h[r].input) :
        a \in Range(gin) \cup Initializers \cup ProducedBy(h, gn)

\* the nodes of the entry graph that have the requested op_type
PreTargets == {r \in Range(pre.node) : pre.heap[r].op_type = op_type}

\* C1: whenever remove_nodes_by_op_type returns normally, the returned graph
\* holds no node of the requested op_type.
C1_NoTargetLeft ==
    ReturnedNormally => ~HasOpType(heap, graph_node, op_type)

\* C1 witness: a normal return from a graph that had two adjacent target
\* nodes, the second one producing a declared graph output.
C1_Witness ==
    /\ pc = "returned"
    /\ \E a, b \in PreTargets :
          /\ a # b
          /\ pre.heap[a].output # <<>> /\ pre.heap[b].input # <<>>
          /\ pre.heap[b].input[1] = pre.heap[a].output[1]
          /\ pre.heap[b].output # <<>>
          /\ pre.heap[b].output[1] \in Range(pre.output)
    /\ graph_node # <<>>

\* every node of the entry graph has exactly one output
PlainOutputs == \A r \in Range(pre.node) : Len(pre.heap[r].output) = 1

\* C2: if the entry graph is well wired, the graph is well wired when the
\* removal loop is over: no remaining node reads a name nothing produces.
\* Stated for entry graphs whose nodes have one output each, where a removed
\* node has no output that the rewiring could miss.
C2_WiringPreserved ==
    (LoopDone /\ PlainOutputs /\ WellWired(pre.heap, pre.node, pre.input))
        => WellWired(heap, graph_node, graph_input)

\* C3: every declared graph output that a node produced on entry is produced
\* by a remaining node when the removal loop is over (stated for entry graphs
\* whose nodes have one output each).
C3_OutputsPreserved ==
    (LoopDone /\ PlainOutputs) =>
        \A o \in Range(pre.output) :
            o \in ProducedBy(pre.heap, pre.node) => o \in ProducedBy(heap, graph_node)

\* the tensor names reached from `names` through at most n removed nodes, each
\* entered by its first input and left by its first output (entry graph)
RECURSIVE Through(_, _)
Through(names, n) ==
    IF n = 0 THEN names
    ELSE LET s == Through(names, n - 1)
         IN  s \cup {pre.heap[r].output[1] :
                        r \in {x \in PreTargets :
                                 /\ pre.heap[x].input # <<>>
                                 /\ pre.heap[x].output # <<>>
                                 /\ pre.heap[x].input[1] \in s}}

\* on entry c read an output of p, directly or through removed nodes only
FedBefore(p, c) ==
    Through(Range(pre.heap[p].output), Cardinality(PreTargets))
        \cap Range(pre.heap[c].input) # {}

\* now c reads an output of p
FedAfter(p, c) == Range(heap[p].output) \cap Range(heap[c].input) # {}

\* C4: when the removal loop is over, a remaining node c reads an output of a
\* remaining node p exactly when, on entry, c read an output of p directly or
\* through removed nodes only (stated for entry graphs whose nodes have one
\* output each).
C4_DataflowPreserved ==
    (LoopDone /\ PlainOutputs) =>
        \A p, c \in Range(graph_node) : FedAfter(p, c) <=> FedBefore(p, c)

\* C5: out_path is written only by the save at the end of
\* prepare_onnx_for_openvino, after the removal of the "Mark" nodes and both
\* validity checks: a written file is the checked model and holds no "Mark"
\* node, and a run that raised wrote nothing.
C5_SaveAfterRemovalAndCheck ==
    /\ file # <<>> =>
          /\ pc = "saved" /\ caller = "prepare" /\ op_type = "Mark"
          /\ k > Len(target_nodes)
          /\ file = <<Snapshot>>
          /\ ~HasOpType(file[1].heap, file[1].node, "Mark")
          /\ CheckModel(file[1].heap, file[1].node, file[1].input)
    /\ pc = "raised" => file = <<>>
    /\ pc = "saved" => file # <<>>

\* C5 witness: a file was saved from a model that held "Mark" nodes.
C5_Witness ==
    /\ pc = "saved"
    /\ file # <<>>
    /\ HasOpType(pre.heap, pre.node, "Mark")
    /\ file[1].node # <<>>

\* C6: a call with an op_type other than "Mark" and "Conv" ends in the failed
\* assertion with the node list and every node's inputs and outputs as they
\* were, nothing collected and nothing spliced.
C6_UnsupportedLeavesModel ==
    op_type \notin {"none", "Mark", "Conv"} =>
        /\ pc = "raised" /\ exc = "AssertionError"
        /\ heap = pre.heap /\ graph_node = pre.node
        /\ target_nodes = <<>> /\ spliced = <<>>

\* C6 witness: the assertion failed on a graph that holds nodes of the
\* requested op_type.
C6_Witness ==
    /\ pc = "raised" /\ exc = "AssertionError"
    /\ op_type \notin {"Mark", "Conv"}
    /\ HasOpType(heap, graph_node, op_type)

\* C7: when the removal loop is over the node list is the entry node list
\* without the nodes of the requested op_type: the other nodes once each, in
\* their entry order, with their op_type, and the count has dropped by the
\* number of nodes of that op_type.
C7_ExactlyTargetsDeleted ==
    LoopDone =>
        /\ graph_node = SelectSeq(pre.node,
                            LAMBDA r : pre.heap[r].op_type # op_type)
        /\ \A r \in Range(graph_node) : heap[r].op_type = pre.heap[r].op_type
        /\ Len(graph_node) = Len(pre.node) - Cardinality(PreTargets)

\* C7 witness: prepare_onnx_for_openvino removed two "Mark" nodes and kept a
\* "Conv" node.
C7_Witness ==
    /\ LoopDone /\ caller = "prepare"
    /\ Cardinality(PreTargets) >= 2
    /\ HasOpType(heap, graph_node, "Conv")

\* the first output of removed node r is no declared graph output
Undeclared(r) ==
    pre.heap[r].output # <<>> /\ pre.heap[r].output[1] \notin Range(pre.output)

\* the removed nodes that read, as first input, the first output of a node of from
Following(from) ==
    {b \in PreTargets :
        /\ Undeclared(b) /\ pre.heap[b].input # <<>>
        /\ \E a \in from : pre.heap[b].input[1] = pre.heap[a].output[1]}

\* the removed nodes reached from `from` by 1 to n such steps
RECURSIVE ChainEnds(_, _)
ChainEnds(from, n) ==
    IF n = 0 THEN {}
    ELSE Following(from) \cup ChainEnds(Following(from), n - 1)

\* C8: with a remaining node P feeding removed node T1 (first input), T1
\* leading through k >= 2 removed nodes in a row to Tk, Tk's first output read
\* by remaining node C, and no output of T1..Tk a declared graph output: when
\* the removal loop is over, that input of C names an output of P.
C8_ChainSplicedToProducer ==
    LoopDone =>
        \A P, C \in Range(graph_node) : \A T1 \in PreTargets :
            (/\ Undeclared(T1) /\ pre.heap[T1].input # <<>>
             /\ pre.heap[T1].input[1] \in Range(pre.heap[P].output))
            => \A Tk \in ChainEnds({T1}, Cardinality(PreTargets)) :
                 \A j \in DOMAIN pre.heap[C].input :
                    pre.heap[C].input[j] = pre.heap[Tk].output[1]
                        => heap[C].input[j] \in Range(heap[P].output)

\* the nodes of the entry graph that are gone from the node list
Removed == Range(pre.node) \ Range(graph_node)

\* the splices whose in_port (as read at line 22) is name a and whose out_port
\* is a declared graph output
RenamingSplices(a) ==
    {n \in DOMAIN spliced :
        spliced[n].in_port = a /\ spliced[n].out_port \in Range(pre.output)}

\* C9: an output name of a remaining node differs from its entry value only
\* when it was the first input of a removed node (as that node was spliced
\* out) whose first output is a declared graph output, and it then carries
\* that graph output name; every other output name is as on entry.
C9_OutputRenamedOnlyForGraphOutput ==
    \A r \in Range(graph_node) \ PreTargets :
        /\ DOMAIN heap[r].output = DOMAIN pre.heap[r].output
        /\ \A j \in DOMAIN heap[r].output :
              LET old == pre.heap[r].output[j]
                  new == heap[r].output[j]
              IN  /\ RenamingSplices(old) = {} => new = old
                  /\ new # old =>
                        \E n \in RenamingSplices(old) : new = spliced[n].out_port

\* C9 as stated, with the removed node's first input taken from the entry
\* graph: an output name of a remaining node differs from its entry value only
\* when it was the entry first input of a removed node whose first output is a
\* declared graph output, and it then carries that name.
C9_OutputRenamedOnlyForEntryInput ==
    LoopDone =>
        \A r \in Range(graph_node) : \A j \in DOMAIN heap[r].output :
            heap[r].output[j] # pre.heap[r].output[j] =>
                \E x \in Removed :
                    /\ pre.heap[x].input # <<>> /\ pre.heap[x].output # <<>>
                    /\ pre.heap[x].input[1] = pre.heap[r].output[j]
                    /\ pre.heap[x].output[1] \in Range(pre.output)
                    /\ heap[r].output[j] = pre.heap[x].output[1]

\* C9 witness: a remaining node's output carries the graph output name of a
\* removed node that it fed through another removed node (the in_port read at
\* the splice is not the removed node's entry input), and a remaining node's
\* output is as on entry.
C9_Witness ==
    /\ LoopDone
    /\ \E r \in Range(graph_node) : \E j \in DOMAIN heap[r].output :
        \E n \in RenamingSplices(pre.heap[r].output[j]) :
          /\ heap[r].output[j] # pre.heap[r].output[j]
          /\ heap[r].output[j] = spliced[n].out_port
          /\ pre.heap[spliced[n].node].input[1] # spliced[n].in_port
    /\ \E r \in Range(graph_node) : \E j \in DOMAIN heap[r].output :
          heap[r].output[j] = pre.heap[r].output[j]

\* C10: the declared graph inputs and outputs are as on entry, names and
\* order, and an input of a remaining node differs from its entry value only
\* if that value was the first output of a removed node.
C10_InterfaceAndInputsFrame ==
    /\ graph_input = pre.input
    /\ graph_output = pre.output
    /\ \A r \in Range(graph_node) :
          /\ DOMAIN heap[r].input = DOMAIN pre.heap[r].input
          /\ \A j \in DOMAIN heap[r].input :
                heap[r].input[j] # pre.heap[r].input[j] =>
                    \E x \in Removed :
                        /\ pre.heap[x].output # <<>>
                        /\ pre.heap[r].input[j] = pre.heap[x].output[1]

\* C10 witness: a remaining node with two inputs has had one replaced and
\* kept the other, under a declared graph output.
C10_Witness ==
    /\ LoopDone
    /\ graph_output # <<>>
    /\ \E r \in Range(graph_node) : \E a, b \in DOMAIN heap[r].input :
          /\ heap[r].input[a] # pre.heap[r].input[a]
          /\ heap[r].input[b] = pre.heap[r].input[b]

\* C11: an iteration that removes a node rewires through port 0 only: in every
\* node that stays, each input slot that held the removed node's first output
\* holds the removed node's first input afterwards, and every other slot (one
\* that held a later output of the removed node included) is as before, so no
\* other input of the removed node reaches a consumer.
C11_RewiringUsesPortZero ==
    [][(pc = "loop" /\ k' = k + 1) =>
          LET tn == target_nodes[k]
          IN  \A r \in Range(graph_node') :
                /\ DOMAIN heap'[r].input = DOMAIN heap[r].input
                /\ \A j \in DOMAIN heap[r].input :
                      heap'[r].input[j] =
                          IF heap[r].input[j] = heap[tn].output[1]
                          THEN heap[tn].input[1]
                          ELSE heap[r].input[j]]_vars

\* C11 witness: a node with two distinct inputs and two outputs was removed,
\* and its consumer, which read both outputs, reads the removed node's first
\* input and still the second output.
C11_Witness ==
    /\ LoopDone
    /\ \E x \in Removed : \E c \in Range(graph_node) :
          /\ Len(pre.heap[x].input) = 2 /\ Len(pre.heap[x].output) = 2
          /\ pre.heap[x].input[1] # pre.heap[x].input[2]
          /\ pre.heap[c].input = pre.heap[x].output
          /\ heap[c].input = <<pre.heap[x].input[1], pre.heap[x].output[2]>>

\* C12: the validity check comes after the whole loop and nothing is rolled
\* back: once it has raised or let the call return, every target has been
\* handled, the caller's model holds no node of the requested op_type, its node
\* list is the entry list without them, and no remaining node reads the first
\* output of a removed node.
C12_ValidatedLastNoRollback ==
    ((pc = "raised" /\ exc = "ValidationError") \/ ReturnedNormally) =>
        /\ k > Len(target_nodes)
        /\ Len(spliced) = Len(target_nodes)
        /\ ~HasOpType(heap, graph_node, op_type)
        /\ graph_node = SelectSeq(pre.node,
                            LAMBDA r : pre.heap[r].op_type # op_type)
        /\ \A n \in DOMAIN spliced :
              spliced[n].in_port # spliced[n].out_port =>
                  \A r \in Range(graph_node) :
                      spliced[n].out_port \notin Range(heap[r].input)

\* C12 witness: the check raised on a model that has lost its target nodes and
\* has been rewired.
C12_Witness ==
    /\ pc = "raised" /\ exc = "ValidationError"
    /\ spliced # <<>>
    /\ graph_node # pre.node
    /\ \E r \in Range(graph_node) : heap[r].input # pre.heap[r].input

\* C13: a second call with the same op_type on a model the first call
\* returned finds no target, passes the validity check and leaves the node
\* list and every node's inputs and outputs as the first call returned them.
C13_SecondCallChangesNothing ==
    caller = "repeat" =>
        /\ pc \in {"loop", "returned"} /\ exc = "none"
        /\ target_nodes = <<>>
        /\ CheckModel(heap, graph_node, graph_input)
        /\ heap = pre.heap
        /\ graph_node = pre.node

\* C13 witness: the second call has returned on a model from which the first
\* call had removed nodes and in which nodes remain.
C13_Witness ==
    /\ caller = "repeat" /\ pc = "returned"
    /\ Len(graph_node) < Len(heap)
    /\ graph_node # <<>>

\* C14: a call with a supported op_type on a graph that holds no node of that
\* op_type collects nothing, splices nothing and leaves the node list, every
\* node's inputs and outputs and the graph interface as they were; the only
\* way it can fail is the validity check.
C14_NoTargetNoChange ==
    (op_type \in Range(supported_op_types) /\ PreTargets = {}) =>
        /\ target_nodes = <<>> /\ spliced = <<>>
        /\ heap = pre.heap
        /\ graph_node = pre.node
        /\ graph_input = pre.input
        /\ graph_output = pre.output
        /\ pc = "raised" => exc = "ValidationError"

\* C14 witness: a first call has returned on a graph that holds nodes, one of
\* them of the other supported op_type, and none of the requested one.
C14_Witness ==
    /\ caller = "direct" /\ pc = "returned"
    /\ PreTargets = {}
    /\ \E r \in Range(graph_node) :
          /\ heap[r].op_type \in Range(supported_op_types)
          /\ heap[r].op_type # op_type

\* C15: _obtain_ignored_scope answers by model_name = "litehrnet_" + variant.
\* Variant "18" and the integer 18 both give preset "mixed", patterns
\* ["/model/backbone/*"] and a non-empty names list; "s" gives preset "mixed"
\* with names and no patterns key; "x" gives preset "performance", patterns
\* ["/model/aggregator/*"] and names; every other model_name gives {}.
C15_ScopeByModelName ==
    lite_pc = "obtained" =>
        LET d == ignored_scope[1]
            is18 == \/ variant.kind = "str" /\ variant.val = "18"
                    \/ variant.kind = "int" /\ variant.val = 18
            isS == variant.kind = "str" /\ variant.val = "s"
            isX == variant.kind = "str" /\ variant.val = "x"
        IN  /\ is18 =>
                /\ model_name = "litehrnet_18"
                /\ DOMAIN d = {"ignored_scope", "preset"}
                /\ d.preset = "mixed"
                /\ DOMAIN d.ignored_scope = {"patterns", "names"}
                /\ d.ignored_scope.patterns = <<"/model/backbone/*">>
                /\ d.ignored_scope.names # <<>>
            /\ isS =>
                /\ model_name = "litehrnet_s"
                /\ DOMAIN d = {"ignored_scope", "preset"}
                /\ d.preset = "mixed"
                /\ DOMAIN d.ignored_scope = {"names"}
                /\ d.ignored_scope.names # <<>>
            /\ isX =>
                /\ model_name = "litehrnet_x"
                /\ DOMAIN d = {"ignored_scope", "preset"}
                /\ d.preset = "performance"
                /\ DOMAIN d.ignored_scope = {"patterns", "names"}
                /\ d.ignored_scope.patterns = <<"/model/aggregator/*">>
                /\ d.ignored_scope.names # <<>>
            /\ (\/ ~(is18 \/ isS \/ isX)
                \/ model_name \notin {"litehrnet_18", "litehrnet_s",
                                      "litehrnet_x"}) =>
                DOMAIN d = {}

\* C15 witness: the scope was obtained for a model built with the integer 18
\* and it is the "mixed" one with the backbone pattern.
C15_Witness ==
    /\ lite_pc = "obtained"
    /\ variant.kind = "int" /\ variant.val = 18
    /\ DOMAIN ignored_scope[1] # {}
    /\ ignored_scope[1].preset = "mixed"

====
